---- MODULE Spec2Model ----
(***************************************************************************)
(* Model of the protoc plugin entry point (src/src/index.ts): main() reads *)
(* a CodeGeneratorRequest, loads the RPC style module, runs preprocess     *)
(* over every proto file and then maps every proto file to one generated   *)
(* TypeScript file.  File names and paths are sequences of one-character   *)
(* strings so that replaceExtension, dirname and relative are computed.    *)
(***************************************************************************)
EXTENDS Naturals, Integers, Sequences, FiniteSets, TLC

(***************************************************************************)
(* Bounds.                                                                 *)
(***************************************************************************)
\* longest request.proto_file batch that is enumerated
MaxFiles == 3

\* most turns other callbacks of the event loop take during one run
MaxTurns == 1

(***************************************************************************)
(* Sequence helpers.                                                       *)
(***************************************************************************)
Range(s) == { s[i] : i \in 1..Len(s) }

Max(S) == CHOOSE m \in S : \A x \in S : x <= m

Min(S) == CHOOSE m \in S : \A x \in S : m <= x

RECURSIVE Concat(_)
\* flattens a sequence of sequences (Array.prototype.flatMap / spread)
Concat(ss) == IF ss = <<>> THEN <<>> ELSE Head(ss) \o Concat(Tail(ss))

\* index of the last occurrence of character c in s, 0 when there is none
LastIndexOf(s, c) == Max({0} \cup { i \in 1..Len(s) : s[i] = c })

(***************************************************************************)
(* replaceExtension (index.ts:62-65): filename.replace(/\.[^/.]+$/, ext).  *)
(* The pattern can only match at the last dot of the string, and only when *)
(* at least one character follows it and none of them is a slash.          *)
(***************************************************************************)
ExtensionStart(filename) ==
    LET p == LastIndexOf(filename, ".")
    IN  IF /\ p > 0
           /\ p < Len(filename)
           /\ \A i \in (p + 1)..Len(filename) : filename[i] \notin {"/", "."}
        THEN p
        ELSE 0

replaceExtension(filename, extension) ==
    LET p == ExtensionStart(filename)
    IN  IF p = 0 THEN filename ELSE SubSeq(filename, 1, p - 1) \o extension

TsExtension == <<".", "t", "s">>

(***************************************************************************)
(* path.dirname and path.relative of node (posix), used at index.ts:130.   *)
(***************************************************************************)
dirname(path) ==
    LET q == LastIndexOf(path, "/")
    IN  IF q = 0 THEN <<".">>
        ELSE IF q = 1 THEN <<"/">>
        ELSE SubSeq(path, 1, q - 1)

RECURSIVE Split(_)
\* the segments of a path between slashes
Split(path) ==
    LET q == LastIndexOf(path, "/")
    IN  IF q = 0 THEN << path >>
        ELSE Append(Split(SubSeq(path, 1, q - 1)), SubSeq(path, q + 1, Len(path)))

RECURSIVE Normalize(_)
\* path.resolve against the working directory, as a list of segments below
\* it: empty and "." segments vanish, ".." removes the segment before it
Normalize(segments) ==
    IF segments = <<>> THEN <<>>
    ELSE LET init == Normalize(SubSeq(segments, 1, Len(segments) - 1))
             last == segments[Len(segments)]
         IN  IF last = <<>> \/ last = <<".">> THEN init
             ELSE IF last = <<".", ".">> /\ init # <<>>
                  THEN SubSeq(init, 1, Len(init) - 1)
             ELSE Append(init, last)

RECURSIVE Join(_)
Join(segments) ==
    IF segments = <<>> THEN <<>>
    ELSE IF Len(segments) = 1 THEN segments[1]
    ELSE segments[1] \o <<"/">> \o Join(Tail(segments))

CommonPrefixLen(a, b) ==
    Max({ n \in 0..Min({Len(a), Len(b)}) : \A i \in 1..n : a[i] = b[i] })

RelativeToWorkingDirectory(from, to) == Join(Normalize(Split(to)))

relative(from, to) ==
    LET f == Normalize(Split(from))
        t == Normalize(Split(to))
        n == CommonPrefixLen(f, t)
        ups == [ i \in 1..(Len(f) - n) |-> <<".", ".">> ]
    IN  Join(ups \o SubSeq(t, n + 1, Len(t)))

\* the module specifier of a dependency import (index.ts:130)
ModuleSpecifier(fileName, dependency) ==
    <<".", "/">> \o relative(dirname(fileName), replaceExtension(dependency, <<>>))

(***************************************************************************)
(* The input: FileDescriptorProto values of the request.                   *)
(***************************************************************************)
NameA == <<"a", ".", "p">>
NameB == <<"d", "/", "b", ".", "p">>
NameC == <<"d", ".", "x", "/", "c">>
NameD == <<"d", "/", "e", ".", "p">>
NameE == <<"f", ".", "p">>
NameF == <<"g", "/", "h", "/", "i", ".", "p">>
NameG == <<"g", "/", "k", ".", "p">>
NameH == <<"h", ".", "p">>

\* a field of scalar type references no type
NoType == <<"", "">>

\* the spec's scenario file: package x, one enum, no dependencies
FileA == [ name |-> NameA, package |-> "x", dependency |-> <<>>,
           enum_type |-> <<"Color">>, message_type |-> <<>>, service |-> <<>> ]

\* imports a.p and uses its enum; one service
FileB == [ name |-> NameB, package |-> "y", dependency |-> <<NameA>>,
           enum_type |-> <<>>,
           message_type |-> << [name |-> "M", type_name |-> <<"x", "Color">>] >>,
           service |-> <<"S">> ]

\* no extension, a dotted directory, no package; two dependencies, two
\* messages, two services
FileC == [ name |-> NameC, package |-> "", dependency |-> <<NameB, NameA>>,
           enum_type |-> <<"E">>,
           message_type |-> << [name |-> "N", type_name |-> <<"y", "M">>],
                               [name |-> "K", type_name |-> NoType] >>,
           service |-> <<"S1", "S2">> ]

\* names the same dependency twice
FileD == [ name |-> NameD, package |-> "y", dependency |-> <<NameA, NameA>>,
           enum_type |-> <<>>,
           message_type |-> << [name |-> "P", type_name |-> <<"x", "Color">>] >>,
           service |-> <<>> ]

\* imports a file of its own directory; a field of its message has a type
\* that no file of the request defines
FileE == [ name |-> NameE, package |-> "x", dependency |-> <<NameA>>,
           enum_type |-> <<>>,
           message_type |-> << [name |-> "Q", type_name |-> <<"z", "Nope">>] >>,
           service |-> <<"T">> ]

\* imports a file of its parent directory
FileF == [ name |-> NameF, package |-> "", dependency |-> <<NameG>>,
           enum_type |-> <<>>, message_type |-> <<>>, service |-> <<>> ]

\* an empty file: no package, dependencies, types or services
FileG == [ name |-> NameG, package |-> "", dependency |-> <<>>,
           enum_type |-> <<>>, message_type |-> <<>>, service |-> <<>> ]

\* a file of the top directory that imports a nested one
FileH == [ name |-> NameH, package |-> "x", dependency |-> <<NameG>>,
           enum_type |-> <<>>,
           message_type |-> << [name |-> "R", type_name |-> NoType] >>,
           service |-> <<"U">> ]

FileDescriptors == { FileA, FileB, FileC, FileD, FileE, FileF, FileG, FileH }

RECURSIVE SeqsUpTo(_, _)
SeqsUpTo(S, n) ==
    IF n = 0 THEN { <<>> }
    ELSE LET shorter == SeqsUpTo(S, n - 1)
         IN  shorter \cup { Append(q, x) : q \in shorter, x \in S }

\* protoc hands over every imported file, each file once, in topological
\* order: a file appears after the files it imports
WellFormedBatch(files) ==
    /\ \A a, b \in 1..Len(files) : a # b => files[a].name # files[b].name
    /\ \A a \in 1..Len(files) : \A d \in Range(files[a].dependency) :
          \E b \in 1..(a - 1) : files[b].name = d

Batches == { files \in SeqsUpTo(FileDescriptors, MaxFiles) : WellFormedBatch(files) }

(***************************************************************************)
(* The input: the module ./style/<style>/rpc.js, or none when the style    *)
(* names no module.  It offers any subset of the operations of interface   *)
(* Rpc (index.ts:21-36); wrapInNamespace answers by one of three rules.    *)
(***************************************************************************)
Operations == { "createServiceClient", "createUnimplementedServer",
                "createGrpcInterfaceType", "wrapInNamespace" }

NoModule == [ offers |-> {"unresolved"}, wrap |-> "never" ]

StyleModules ==
    { [ offers |-> o, wrap |-> w ] : o \in SUBSET Operations, w \in {"always", "never", "packaged"} }

Styles ==
    { m \in StyleModules : "wrapInNamespace" \notin m.offers => m.wrap = "never" } \cup { NoModule }

\* what the style's wrapInNamespace returns for a file
WrapAnswer(m, fileDescriptor) ==
    CASE m.wrap = "always" -> TRUE
      [] m.wrap = "never" -> FALSE
      [] OTHER -> fileDescriptor.package # ""

(***************************************************************************)
(* State.                                                                  *)
(***************************************************************************)
VARIABLES
    request,            \* the deserialized CodeGeneratorRequest (index.ts:68)
    styleModule,        \* what import(`./style/${options.style}/rpc.js`) finds
    pc,                 \* position of main()
    pbIdentifier,       \* index.ts:73
    grpcIdentifier,     \* index.ts:74
    nextAutoGenerateId, \* the factory's counter behind createUniqueName
    rpc,                \* the operations destructured from the module (80-85)
    symbolMap,          \* type.js: type name -> name of the defining file
    dependencyMap,      \* type.js: dependency name -> import identifier
    bindingFile,        \* history: index of the file whose pass set a binding
    i,                  \* index of the proto file being processed
    j,                  \* index inside the list the current step walks
    statements,         \* index.ts:96
    sourceStatements,   \* the array handed to createSourceFile (118-143)
    file,               \* the files of the response so far (94)
    stdout,             \* what was written to the output channel (151)
    calls,              \* history: the calls made so far, with the file index
    otherTurns,         \* turns of the event loop taken by other callbacks
    interleavings       \* history: where main() stood when another callback ran

vars == << request, styleModule, pc, pbIdentifier, grpcIdentifier,
           nextAutoGenerateId, rpc, symbolMap, dependencyMap, bindingFile,
           i, j, statements, sourceStatements, file, stdout, calls,
           otherTurns, interleavings >>

NoIdentifier == [ text |-> "", id |-> 0 ]

EmptyMap == [ d \in {} |-> NoIdentifier ]

EmptyOwners == [ d \in {} |-> 0 ]

NumFiles == Len(request.proto_file)

protoFile == request.proto_file[i]

CallWith(op, arg) == [ op |-> op, file |-> i, arg |-> arg ]

Call(op) == CallWith(op, <<>>)

(***************************************************************************)
(* Declarations.  createEnum, createMessage and createNamespace live in    *)
(* descriptor.js, the lookups in type.js, the RPC declarations in the      *)
(* style module.                                                           *)
(***************************************************************************)
createIdentifier(text, id) == [ text |-> text, id |-> 1 ]

\* factory.createUniqueName (index.ts:73, 74, 124): a new generated
\* identifier, told apart from every other one by its auto-generate id
createUniqueName(text, id) == [ text |-> text, id |-> id ]

createImport(identifier, moduleSpecifier) ==
    [ kind |-> "import", alias |-> identifier, module |-> moduleSpecifier ]

createComment(fileDescriptor) ==
    [ kind |-> "comment", source |-> fileDescriptor.name ]

createEnum(enumDescriptor) == [ kind |-> "enum", name |-> enumDescriptor ]

\* the types a file defines, under the prefix `.${package}`
TypesOf(fileDescriptor) ==
    { <<fileDescriptor.package, e>> : e \in Range(fileDescriptor.enum_type) }
      \cup { <<fileDescriptor.package, m.name>> : m \in Range(fileDescriptor.message_type) }

preprocess(fileDescriptor, map) ==
    [ t \in DOMAIN map \cup TypesOf(fileDescriptor) |->
        IF t \in TypesOf(fileDescriptor) THEN fileDescriptor.name ELSE map[t] ]

Resolvable(message, map) ==
    message.type_name = NoType \/ message.type_name \in DOMAIN map

\* the identifier the dependency map returns for the file defining a type
TypeQualifier(typeName, symbols, dependencies) ==
    IF typeName \in DOMAIN symbols /\ symbols[typeName] \in DOMAIN dependencies
    THEN dependencies[symbols[typeName]]
    ELSE NoIdentifier

createMessage(fileDescriptor, message, symbols, dependencies) ==
    << [ kind |-> "message", name |-> message.name, type |-> message.type_name,
         qualifier |-> TypeQualifier(message.type_name, symbols, dependencies) ] >>

setIdentifierForDependency(map, dependency, identifier) ==
    [ d \in DOMAIN map \cup {dependency} |->
        IF d = dependency THEN identifier ELSE map[d] ]

resetDependencyMap(map) == EmptyMap

createGrpcInterfaceType(identifier) ==
    << [ kind |-> "interface", name |-> "Unary", alias |-> identifier ],
       [ kind |-> "interface", name |-> "Stream", alias |-> identifier ] >>

createUnimplementedServer(fileDescriptor, service, identifier) ==
    [ kind |-> "server", service |-> service, alias |-> identifier ]

createServiceClient(fileDescriptor, service, identifier) ==
    [ kind |-> "client", service |-> service, alias |-> identifier ]

createNamespace(package, body) ==
    [ kind |-> "namespace", name |-> package, body |-> body ]

(***************************************************************************)
(* Optional operations of the style module: `op?.(...)` is undefined when  *)
(* the module does not export op.                                          *)
(***************************************************************************)
Undefined == [ kind |-> "undefined", value |-> <<>> ]

TypeError == [ kind |-> "TypeError", value |-> <<>> ]

Returned(value) == [ kind |-> "returned", value |-> value ]

CallUnchecked(ops, op, value) ==
    IF op \in ops THEN Returned(value) ELSE TypeError

OptionalCall(ops, op, value) ==
    IF op \in ops THEN Returned(value) ELSE Undefined

\* index.ts:104: ...(createGrpcInterfaceType?.(grpcIdentifier) ?? [])
InterfaceResult(ops, identifier) ==
    OptionalCall(ops, "createGrpcInterfaceType", createGrpcInterfaceType(identifier))

ServiceResultsWithInterfaces(ops, fileDescriptor, service, identifier) ==
    << OptionalCall(ops, "createGrpcInterfaceType", createGrpcInterfaceType(identifier)[1]),
       OptionalCall(ops, "createUnimplementedServer",
                    createUnimplementedServer(fileDescriptor, service, identifier)),
       OptionalCall(ops, "createServiceClient",
                    createServiceClient(fileDescriptor, service, identifier)) >>

ServiceResultsClientFirst(ops, fileDescriptor, service, identifier) ==
    << OptionalCall(ops, "createServiceClient",
                    createServiceClient(fileDescriptor, service, identifier)),
       OptionalCall(ops, "createUnimplementedServer",
                    createUnimplementedServer(fileDescriptor, service, identifier)) >>

\* index.ts:107-110: the callback of file.service.flatMap
ServiceResults(ops, fileDescriptor, service, identifier) ==
    << OptionalCall(ops, "createUnimplementedServer",
                    createUnimplementedServer(fileDescriptor, service, identifier)),
       OptionalCall(ops, "createServiceClient",
                    createServiceClient(fileDescriptor, service, identifier)) >>

Threw(results) == \E k \in 1..Len(results) : results[k] = TypeError

\* .filter(c => c !== undefined)
RECURSIVE Defined(_)
Defined(results) ==
    IF results = <<>> THEN <<>>
    ELSE IF Head(results) = Undefined THEN Defined(Tail(results))
    ELSE << Head(results).value >> \o Defined(Tail(results))

WrapsAlways(ops, m, fileDescriptor) == TRUE

\* index.ts:139: wrapInNamespace?.(file) ?? false
Wraps(ops, m, fileDescriptor) ==
    LET r == OptionalCall(ops, "wrapInNamespace", WrapAnswer(m, fileDescriptor))
    IN  r.kind = "returned" /\ r.value

(***************************************************************************)
(* printer.printFile (index.ts:117): every generated identifier gets, on   *)
(* its first emission in the file, the first name text_n not yet generated *)
(* in this file; the printer forgets all names after each file.            *)
(***************************************************************************)
NoName == [ text |-> "", n |-> 0 ]

IdentifiersOf(node) ==
    CASE node.kind \in {"import", "interface", "server", "client"} -> << node.alias >>
      [] node.kind = "message" ->
            IF node.qualifier = NoIdentifier THEN <<>> ELSE << node.qualifier >>
      [] OTHER -> <<>>

RECURSIVE EmittedIdentifiers(_)
EmittedIdentifiers(nodes) ==
    IF nodes = <<>> THEN <<>>
    ELSE LET node == Head(nodes)
         IN  (IF node.kind = "namespace"
              THEN EmittedIdentifiers(node.body)
              ELSE IdentifiersOf(node)) \o EmittedIdentifiers(Tail(nodes))

RECURSIVE GenerateNames(_, _)
GenerateNames(identifiers, names) ==
    IF identifiers = <<>> THEN names
    ELSE LET x == Head(identifiers)
             used == { names[y].n : y \in { z \in DOMAIN names : names[z].text = x.text } }
             n == Min({ k \in 1..(Cardinality(DOMAIN names) + 1) : k \notin used })
         IN  IF x.id \in DOMAIN names
             THEN GenerateNames(Tail(identifiers), names)
             ELSE GenerateNames(Tail(identifiers),
                                [ y \in DOMAIN names \cup {x.id} |->
                                    IF y = x.id THEN [ text |-> x.text, n |-> n ]
                                    ELSE names[y] ])

NameOf(identifier, names) ==
    IF identifier = NoIdentifier THEN NoName ELSE names[identifier.id]

RECURSIVE PrintNodes(_, _)
PrintNodes(nodes, names) ==
    [ k \in 1..Len(nodes) |->
        LET node == nodes[k]
        IN  CASE node.kind \in {"import", "interface", "server", "client"} ->
                    [ node EXCEPT !.alias = NameOf(node.alias, names) ]
              [] node.kind = "message" ->
                    [ node EXCEPT !.qualifier = NameOf(node.qualifier, names) ]
              [] node.kind = "namespace" ->
                    [ node EXCEPT !.body = PrintNodes(node.body, names) ]
              [] OTHER -> node ]

printFile(nodes) ==
    PrintNodes(nodes, GenerateNames(EmittedIdentifiers(nodes), [ y \in {} |-> NoName ]))

(***************************************************************************)
(* main() (index.ts:70-152), one action per step.                          *)
(***************************************************************************)
Init ==
    /\ request \in [ proto_file : Batches ]
    /\ styleModule \in Styles
    /\ pc = "start"
    /\ pbIdentifier = NoIdentifier
    /\ grpcIdentifier = NoIdentifier
    /\ nextAutoGenerateId = 1
    /\ rpc = {}
    /\ symbolMap = [ t \in {} |-> <<>> ]
    /\ dependencyMap = EmptyMap
    /\ bindingFile = EmptyOwners
    /\ i = 0
    /\ j = 0
    /\ statements = <<>>
    /\ sourceStatements = <<>>
    /\ file = <<>>
    /\ stdout = <<>>
    /\ calls = <<>>
    /\ otherTurns = 0
    /\ interleavings = {}

\* index.ts:73-85, up to the await: the two runtime identifiers
Prepare ==
    /\ pc = "start"
    /\ pbIdentifier' = createUniqueName("pb", nextAutoGenerateId)
    /\ grpcIdentifier' = createUniqueName("grpc", nextAutoGenerateId + 1)
    /\ nextAutoGenerateId' = nextAutoGenerateId + 2
    /\ pc' = "import"
    /\ UNCHANGED << otherTurns, interleavings >>
    /\ UNCHANGED << request, styleModule, rpc, symbolMap, dependencyMap, bindingFile,
                    i, j, statements, sourceStatements, file, stdout, calls >>

ImportWithFallback ==
    /\ pc = "import"
    /\ rpc' = IF styleModule = NoModule THEN {} ELSE styleModule.offers
    /\ pc' = IF NumFiles = 0 THEN "write" ELSE "preprocess"
    /\ i' = 1
    /\ UNCHANGED << otherTurns, interleavings >>
    /\ UNCHANGED << request, styleModule, pbIdentifier, grpcIdentifier,
                    nextAutoGenerateId, symbolMap, dependencyMap, bindingFile,
                    j, statements, sourceStatements, file, stdout, calls >>

\* index.ts:80-85: the import resolves and the operations are destructured
ImportFulfilled ==
    /\ pc = "import"
    /\ styleModule # NoModule
    /\ rpc' = styleModule.offers
    /\ pc' = IF NumFiles = 0 THEN "write" ELSE "preprocess"
    /\ i' = 1
    /\ UNCHANGED << otherTurns, interleavings >>
    /\ UNCHANGED << request, styleModule, pbIdentifier, grpcIdentifier,
                    nextAutoGenerateId, symbolMap, dependencyMap, bindingFile,
                    j, statements, sourceStatements, file, stdout, calls >>

\* index.ts:85: no module for the style; main() rejects
ImportRejected ==
    /\ pc = "import"
    /\ styleModule = NoModule
    /\ pc' = "failed"
    /\ UNCHANGED << otherTurns, interleavings >>
    /\ UNCHANGED << request, styleModule, pbIdentifier, grpcIdentifier,
                    nextAutoGenerateId, rpc, symbolMap, dependencyMap, bindingFile,
                    i, j, statements, sourceStatements, file, stdout, calls >>

PreprocessFirstOnly ==
    /\ pc = "preprocess"
    /\ symbolMap' = preprocess(protoFile, symbolMap)
    /\ calls' = Append(calls, Call("preprocess"))
    /\ i' = 1
    /\ pc' = "enums"
    /\ UNCHANGED << otherTurns, interleavings >>
    /\ UNCHANGED << request, styleModule, pbIdentifier, grpcIdentifier,
                    nextAutoGenerateId, rpc, dependencyMap, bindingFile,
                    j, statements, sourceStatements, file, stdout >>

\* index.ts:87-90: one turn of the preprocess loop
Preprocess ==
    /\ pc = "preprocess"
    /\ symbolMap' = preprocess(protoFile, symbolMap)
    /\ calls' = Append(calls, Call("preprocess"))
    /\ IF i < NumFiles
       THEN /\ i' = i + 1
            /\ pc' = "preprocess"
       ELSE /\ i' = 1
            /\ pc' = "enums"
    /\ UNCHANGED << otherTurns, interleavings >>
    /\ UNCHANGED << request, styleModule, pbIdentifier, grpcIdentifier,
                    nextAutoGenerateId, rpc, dependencyMap, bindingFile,
                    j, statements, sourceStatements, file, stdout >>

\* index.ts:98: file.enum_type.map(createEnum), first step of the callback
CreateEnums ==
    /\ pc = "enums"
    /\ statements' = [ k \in 1..Len(protoFile.enum_type) |-> createEnum(protoFile.enum_type[k]) ]
    /\ sourceStatements' = <<>>
    /\ calls' = calls \o [ k \in 1..Len(protoFile.enum_type) |-> Call("createEnum") ]
    /\ j' = 1
    /\ pc' = IF protoFile.message_type # <<>> THEN "messages" ELSE "interfaces"
    /\ UNCHANGED << otherTurns, interleavings >>
    /\ UNCHANGED << request, styleModule, pbIdentifier, grpcIdentifier,
                    nextAutoGenerateId, rpc, symbolMap, dependencyMap, bindingFile,
                    i, file, stdout >>

\* index.ts:101: createMessage for one message of the file
CreateMessage ==
    /\ pc = "messages"
    /\ Resolvable(protoFile.message_type[j], symbolMap)
    /\ statements' = statements \o createMessage(protoFile, protoFile.message_type[j],
                                                 symbolMap, dependencyMap)
    /\ calls' = Append(calls, Call("createMessage"))
    /\ IF j < Len(protoFile.message_type)
       THEN /\ j' = j + 1
            /\ pc' = "messages"
       ELSE /\ j' = 1
            /\ pc' = "interfaces"
    /\ UNCHANGED << otherTurns, interleavings >>
    /\ UNCHANGED << request, styleModule, pbIdentifier, grpcIdentifier,
                    nextAutoGenerateId, rpc, symbolMap, dependencyMap, bindingFile,
                    i, sourceStatements, file, stdout >>

\* index.ts:101: a type reference that resolves to no descriptor is fatal
CreateMessageThrows ==
    /\ pc = "messages"
    /\ ~Resolvable(protoFile.message_type[j], symbolMap)
    /\ calls' = Append(calls, Call("createMessage"))
    /\ pc' = "failed"
    /\ UNCHANGED << otherTurns, interleavings >>
    /\ UNCHANGED << request, styleModule, pbIdentifier, grpcIdentifier,
                    nextAutoGenerateId, rpc, symbolMap, dependencyMap, bindingFile,
                    i, j, statements, sourceStatements, file, stdout >>

\* index.ts:104
CreateInterfaces ==
    /\ pc = "interfaces"
    /\ LET r == InterfaceResult(rpc, grpcIdentifier)
       IN  /\ statements' = statements \o Concat(Defined(<< r >>))
           /\ calls' = IF r = Undefined THEN calls
                       ELSE Append(calls, Call("createGrpcInterfaceType"))
           /\ pc' = IF Threw(<< r >>) THEN "failed"
                    ELSE IF protoFile.service # <<>> THEN "services" ELSE "reset"
    /\ j' = 1
    /\ UNCHANGED << otherTurns, interleavings >>
    /\ UNCHANGED << request, styleModule, pbIdentifier, grpcIdentifier,
                    nextAutoGenerateId, rpc, symbolMap, dependencyMap, bindingFile,
                    i, sourceStatements, file, stdout >>

\* index.ts:107-110: the flatMap callback for one service of the file
CreateServices ==
    /\ pc = "services"
    /\ LET r == ServiceResults(rpc, protoFile, protoFile.service[j], grpcIdentifier)
       IN  /\ statements' = statements \o Defined(r)
           /\ calls' = calls
                \o [ k \in 1..Len(Defined(r)) |->
                        Call(IF Defined(r)[k].kind = "server" THEN "createUnimplementedServer"
                             ELSE IF Defined(r)[k].kind = "client" THEN "createServiceClient"
                             ELSE "createGrpcInterfaceType") ]
           /\ IF Threw(r)
              THEN /\ j' = j
                   /\ pc' = "failed"
              ELSE IF j < Len(protoFile.service)
              THEN /\ j' = j + 1
                   /\ pc' = "services"
              ELSE /\ j' = 1
                   /\ pc' = "reset"
    /\ UNCHANGED << otherTurns, interleavings >>
    /\ UNCHANGED << request, styleModule, pbIdentifier, grpcIdentifier,
                    nextAutoGenerateId, rpc, symbolMap, dependencyMap, bindingFile,
                    i, sourceStatements, file, stdout >>

\* index.ts:113
ResetDependencyMap ==
    /\ pc = "reset"
    /\ dependencyMap' = resetDependencyMap(dependencyMap)
    /\ bindingFile' = EmptyOwners
    /\ calls' = Append(calls, Call("resetDependencyMap"))
    /\ pc' = "comment"
    /\ UNCHANGED << otherTurns, interleavings >>
    /\ UNCHANGED << request, styleModule, pbIdentifier, grpcIdentifier,
                    nextAutoGenerateId, rpc, symbolMap,
                    i, j, statements, sourceStatements, file, stdout >>

\* index.ts:116-120: the file name is computed, then the header comment
CreateComment ==
    /\ pc = "comment"
    /\ sourceStatements' = << createComment(protoFile) >>
    /\ calls' = Append(calls, Call("createComment"))
    /\ j' = 1
    /\ pc' = IF protoFile.dependency # <<>> THEN "dependencies" ELSE "defaults"
    /\ UNCHANGED << otherTurns, interleavings >>
    /\ UNCHANGED << request, styleModule, pbIdentifier, grpcIdentifier,
                    nextAutoGenerateId, rpc, symbolMap, dependencyMap, bindingFile,
                    i, statements, file, stdout >>

\* index.ts:123-132: the callback of file.dependency.map for one dependency
DependencyImport ==
    /\ pc = "dependencies"
    /\ LET dependency == protoFile.dependency[j]
           identifier == createUniqueName("dependency", nextAutoGenerateId)
       IN  /\ nextAutoGenerateId' = nextAutoGenerateId + 1
           /\ dependencyMap' = setIdentifierForDependency(dependencyMap, dependency, identifier)
           /\ bindingFile' = [ d \in DOMAIN bindingFile \cup {dependency} |->
                                 IF d = dependency THEN i ELSE bindingFile[d] ]
           /\ sourceStatements' = Append(sourceStatements,
                    createImport(identifier, ModuleSpecifier(protoFile.name, dependency)))
    /\ calls' = calls \o
            << CallWith("setIdentifierForDependency",
                        << protoFile.dependency[j],
                           createUniqueName("dependency", nextAutoGenerateId) >>),
               Call("createImport") >>
    /\ IF j < Len(protoFile.dependency)
       THEN /\ j' = j + 1
            /\ pc' = "dependencies"
       ELSE /\ j' = 1
            /\ pc' = "defaults"
    /\ UNCHANGED << otherTurns, interleavings >>
    /\ UNCHANGED << request, styleModule, pbIdentifier, grpcIdentifier,
                    rpc, symbolMap, i, statements, file, stdout >>

GoogleProtobuf == << "google-protobuf" >>

GrpcPackage == << "options.grpc_package" >>

RuntimeImportsWhenNeeded(pb, grpc, fileDescriptor) ==
    (IF fileDescriptor.message_type # <<>> THEN << createImport(pb, GoogleProtobuf) >> ELSE <<>>)
      \o (IF fileDescriptor.service # <<>> THEN << createImport(grpc, GrpcPackage) >> ELSE <<>>)

\* index.ts:135-136
RuntimeImports(pb, grpc, fileDescriptor) ==
    << createImport(pb, GoogleProtobuf), createImport(grpc, GrpcPackage) >>

DefaultImports ==
    /\ pc = "defaults"
    /\ sourceStatements' = sourceStatements \o
            RuntimeImports(pbIdentifier, grpcIdentifier, protoFile)
    /\ calls' = calls \o << Call("createImport"), Call("createImport") >>
    /\ pc' = "wrap"
    /\ UNCHANGED << otherTurns, interleavings >>
    /\ UNCHANGED << request, styleModule, pbIdentifier, grpcIdentifier,
                    nextAutoGenerateId, rpc, symbolMap, dependencyMap, bindingFile,
                    i, j, statements, file, stdout >>

WrapWholeFile ==
    /\ pc = "wrap"
    /\ IF Wraps(rpc, styleModule, protoFile)
       THEN /\ sourceStatements' =
                  << createNamespace(protoFile.package, sourceStatements \o statements) >>
            /\ calls' = calls \o << Call("wrapInNamespace"), Call("createNamespace") >>
       ELSE /\ sourceStatements' = sourceStatements \o statements
            /\ calls' = IF "wrapInNamespace" \in rpc
                        THEN Append(calls, Call("wrapInNamespace"))
                        ELSE calls
    /\ pc' = "print"
    /\ UNCHANGED << otherTurns, interleavings >>
    /\ UNCHANGED << request, styleModule, pbIdentifier, grpcIdentifier,
                    nextAutoGenerateId, rpc, symbolMap, dependencyMap, bindingFile,
                    i, j, statements, file, stdout >>

\* index.ts:139-142
WrapStatements ==
    /\ pc = "wrap"
    /\ IF Wraps(rpc, styleModule, protoFile)
       THEN /\ sourceStatements' = Append(sourceStatements,
                                          createNamespace(protoFile.package, statements))
            /\ calls' = calls \o << Call("wrapInNamespace"), Call("createNamespace") >>
       ELSE /\ sourceStatements' = sourceStatements \o statements
            /\ calls' = IF "wrapInNamespace" \in rpc
                        THEN Append(calls, Call("wrapInNamespace"))
                        ELSE calls
    /\ pc' = "print"
    /\ UNCHANGED << otherTurns, interleavings >>
    /\ UNCHANGED << request, styleModule, pbIdentifier, grpcIdentifier,
                    nextAutoGenerateId, rpc, symbolMap, dependencyMap, bindingFile,
                    i, j, statements, file, stdout >>

StoreFirst(files, generated) == << generated >> \o files

\* index.ts:94: map() puts the result of the callback at the next position
StoreResult(files, generated) == Append(files, generated)

\* index.ts:115-147: the source file is printed and the callback returns
\* the response file
EmitFile ==
    /\ pc = "print"
    /\ file' = StoreResult(file, [ name |-> replaceExtension(protoFile.name, TsExtension),
                                   content |-> printFile(sourceStatements) ])
    /\ calls' = Append(calls, Call("printFile"))
    /\ IF i < NumFiles
       THEN /\ i' = i + 1
            /\ pc' = "enums"
       ELSE /\ i' = i
            /\ pc' = "write"
    /\ UNCHANGED << otherTurns, interleavings >>
    /\ UNCHANGED << request, styleModule, pbIdentifier, grpcIdentifier,
                    nextAutoGenerateId, rpc, symbolMap, dependencyMap, bindingFile,
                    j, statements, sourceStatements, stdout >>

WriteAfterEachFile ==
    /\ pc = "write" \/ (pc = "enums" /\ Len(stdout) < Len(file))
    /\ stdout' = Append(stdout, file)
    /\ pc' = IF pc = "write" THEN "done" ELSE pc
    /\ UNCHANGED << otherTurns, interleavings >>
    /\ UNCHANGED << request, styleModule, pbIdentifier, grpcIdentifier,
                    nextAutoGenerateId, rpc, symbolMap, dependencyMap, bindingFile,
                    i, j, statements, sourceStatements, file, calls >>

\* index.ts:151
WriteResponse ==
    /\ pc = "write"
    /\ stdout' = Append(stdout, file)
    /\ pc' = "done"
    /\ UNCHANGED << otherTurns, interleavings >>
    /\ UNCHANGED << request, styleModule, pbIdentifier, grpcIdentifier,
                    nextAutoGenerateId, rpc, symbolMap, dependencyMap, bindingFile,
                    i, j, statements, sourceStatements, file, calls >>

SuspendedInLoop == pc \in {"import", "enums"}

\* main() is suspended only at its one await, index.ts:85
Suspended == pc = "import"

\* another callback gets a turn of the event loop: it finds the dependency
\* map as main() left it and may clear it through type.js
OtherTask ==
    /\ Suspended
    /\ otherTurns < MaxTurns
    /\ otherTurns' = otherTurns + 1
    /\ interleavings' = interleavings \cup
            { [ turn |-> otherTurns + 1, at |-> pc, map |-> dependencyMap ] }
    /\ dependencyMap' = resetDependencyMap(dependencyMap)
    /\ bindingFile' = EmptyOwners
    /\ UNCHANGED << request, styleModule, pc, pbIdentifier, grpcIdentifier,
                    nextAutoGenerateId, rpc, symbolMap,
                    i, j, statements, sourceStatements, file, stdout, calls >>

Next ==
    \/ OtherTask
    \/ Prepare
    \/ ImportFulfilled
    \/ ImportRejected
    \/ Preprocess
    \/ CreateEnums
    \/ CreateMessage
    \/ CreateMessageThrows
    \/ CreateInterfaces
    \/ CreateServices
    \/ ResetDependencyMap
    \/ CreateComment
    \/ DependencyImport
    \/ DefaultImports
    \/ WrapStatements
    \/ EmitFile
    \/ WriteResponse

Spec == Init /\ [][Next]_vars

(***************************************************************************)
(* Properties.                                                             *)
(***************************************************************************)
\* the response is complete: every proto file went through the callback
Completed == pc \in {"write", "done"}

\* the nodes of kind k in a list of nodes, in order
RECURSIVE OfKind(_, _)
OfKind(nodes, kinds) ==
    IF nodes = <<>> THEN <<>>
    ELSE (IF Head(nodes).kind \in kinds THEN << Head(nodes) >> ELSE <<>>)
            \o OfKind(Tail(nodes), kinds)

\* the declarations of a generated file with a namespace block opened up
RECURSIVE Flat(_)
Flat(nodes) ==
    IF nodes = <<>> THEN <<>>
    ELSE (IF Head(nodes).kind = "namespace" THEN Head(nodes).body ELSE << Head(nodes) >>)
            \o Flat(Tail(nodes))

\* C1: when the run completes, the response holds one generated file per
\* proto file, and the file at position k comes from the proto file at
\* position k: it is named after it and its header names it as the source.
C1_OneFilePerInputInOrder ==
    Completed =>
        /\ Len(file) = NumFiles
        /\ \A k \in 1..NumFiles :
              /\ file[k].name = replaceExtension(request.proto_file[k].name, TsExtension)
              /\ file[k].content[1] = createComment(request.proto_file[k])

C1_Witness ==
    /\ pc = "done"
    /\ NumFiles = 3
    /\ Len(file) = 3
    /\ stdout = << file >>

\* the calls made for proto file k, in order
RECURSIVE CallsOf(_, _, _)
CallsOf(log, k, ops) ==
    IF log = <<>> THEN <<>>
    ELSE (IF Head(log).file = k /\ Head(log).op \in ops THEN << Head(log) >> ELSE <<>>)
            \o CallsOf(Tail(log), k, ops)

TranslateOps == { "createEnum", "createMessage" }

RpcOps == { "createGrpcInterfaceType", "createUnimplementedServer", "createServiceClient" }

\* a message or a service of the current file is about to be translated
Translating ==
    \/ pc = "messages"
    \/ pc = "services" /\ rpc \cap {"createUnimplementedServer", "createServiceClient"} # {}

\* C2: whenever a message or service of a file is being translated, every
\* binding in the dependency map was set during the pass over that file.
C2_NoLeakageBetweenFiles ==
    Translating => \A d \in DOMAIN dependencyMap : bindingFile[d] = i

\* the imports of the assembled source file that point at a dependency
ImportsOf(nodes, fileName, dependency) ==
    { k \in 1..Len(nodes) :
        /\ nodes[k].kind = "import"
        /\ nodes[k].module = ModuleSpecifier(fileName, dependency) }

\* C3: when a file has been assembled, each of its dependencies has exactly
\* one import, and every message that refers to a type of that dependency
\* was given, by the dependency map, the alias that this import binds.
C3_ReferencesUseOwnImportAlias ==
    pc = "print" =>
        \A dependency \in Range(protoFile.dependency) :
            LET imports == ImportsOf(sourceStatements, protoFile.name, dependency)
            IN  /\ Cardinality(imports) = 1
                /\ \A k \in 1..Len(statements) :
                      ( /\ statements[k].kind = "message"
                        /\ statements[k].type \in DOMAIN symbolMap
                        /\ symbolMap[statements[k].type] = dependency )
                      => \A n \in imports :
                            statements[k].qualifier = sourceStatements[n].alias

\* the place of a call in the per-file order of the orchestrator
Phase(op) ==
    CASE op = "setIdentifierForDependency" -> 1
      [] op \in TranslateOps -> 2
      [] op \in RpcOps -> 3
      [] op \in {"createComment", "createImport"} -> 4
      [] op \in {"wrapInNamespace", "createNamespace"} -> 5
      [] op = "printFile" -> 6
      [] op = "resetDependencyMap" -> 7
      [] OTHER -> 0

\* C4: the calls made for one file follow the order resolve-dependencies,
\* translate-types, build-rpc-declarations, assemble-imports, namespace
\* wrap, emit, reset (binding and importing one dependency after another
\* counts as resolving and assembling); so all dependencies of the file are
\* bound before its first type or service is translated, and the reset
\* follows the emission of the file.
C4_StepOrder ==
    /\ \A a, b \in 1..Len(calls) :
          ( /\ a < b
            /\ calls[a].file = calls[b].file
            /\ Phase(calls[a].op) > 0
            /\ Phase(calls[b].op) > 0
            /\ ~(Phase(calls[a].op) = 4 /\ Phase(calls[b].op) = 1) )
          => Phase(calls[a].op) <= Phase(calls[b].op)
    /\ \A b \in 1..Len(calls) :
          calls[b].op \in TranslateOps \cup RpcOps =>
             \A d \in Range(request.proto_file[calls[b].file].dependency) :
                \E a \in 1..(b - 1) :
                   /\ calls[a].file = calls[b].file
                   /\ calls[a].op = "setIdentifierForDependency"
                   /\ calls[a].arg[1] = d

\* a module specifier names the target when followed from the directory
ResolvesTo(directory, specifier, target) ==
    /\ Len(specifier) > 2
    /\ SubSeq(specifier, 1, 2) = <<".", "/">>
    /\ Normalize(Split(directory) \o Split(specifier)) = Normalize(Split(target))

\* C5: once the dependency imports of a file are assembled they are one
\* import per entry of file.dependency, in that order, placed right after
\* the header; import k is bound to the identifier that the k-th call of
\* setIdentifierForDependency recorded for entry k, and its module
\* specifier leads from the directory of the file to the dependency's path
\* without extension.  The printed file keeps them in that place and order.
C5_DependencyImports ==
    /\ pc \in {"defaults", "wrap", "print"} =>
          LET deps == protoFile.dependency
              sets == CallsOf(calls, i, {"setIdentifierForDependency"})
          IN  /\ Len(sets) = Len(deps)
              /\ Len(OfKind(sourceStatements, {"import"}))
                    = Len(deps) + (IF pc = "defaults" THEN 0 ELSE 2)
              /\ \A k \in 1..Len(deps) :
                    /\ sets[k].arg[1] = deps[k]
                    /\ sourceStatements[k + 1].kind = "import"
                    /\ sourceStatements[k + 1].alias = sets[k].arg[2]
                    /\ ResolvesTo(dirname(protoFile.name), sourceStatements[k + 1].module,
                                  replaceExtension(deps[k], <<>>))
    /\ \A n \in 1..Len(file) :
          LET deps == request.proto_file[n].dependency
          IN  /\ Len(OfKind(file[n].content, {"import"})) = Len(deps) + 2
              /\ \A k \in 1..Len(deps) :
                    /\ file[n].content[k + 1].kind = "import"
                    /\ ResolvesTo(dirname(request.proto_file[n].name),
                                  file[n].content[k + 1].module,
                                  replaceExtension(deps[k], <<>>))

\* a file with two dependencies, each in another directory, has been emitted
C5_Witness ==
    /\ pc = "done"
    /\ \E n \in 1..Len(file) :
          /\ request.proto_file[n] = FileC
          /\ file[n].content[2].module = <<".", "/", ".", ".", "/", "d", "/", "b">>
          /\ file[n].content[3].module = <<".", "/", ".", ".", "/", "a">>

\* no two entries of a sequence are equal
Distinct(q) == \A a, b \in 1..Len(q) : a # b => q[a] # q[b]

Aliases(nodes) == [ k \in 1..Len(nodes) |-> nodes[k].alias ]

\* C6: the import aliases of one generated file are pairwise distinct: the
\* identifiers of the assembled imports differ from each other and from the
\* pb and grpc identifiers, and so do the names printed for them.
C6_AliasesDistinct ==
    /\ pc = "print" => Distinct(Aliases(OfKind(sourceStatements, {"import"})))
    /\ \A n \in 1..Len(file) : Distinct(Aliases(OfKind(file[n].content, {"import"})))

\* a file that names the same dependency twice has been emitted with two
\* different aliases for it
C6_Witness ==
    \E n \in 1..Len(file) :
        /\ request.proto_file[n] = FileD
        /\ Aliases(OfKind(file[n].content, {"import"}))
             = << [text |-> "dependency", n |-> 1], [text |-> "dependency", n |-> 2],
                  [text |-> "pb", n |-> 1], [text |-> "grpc", n |-> 1] >>

\* C7: every generated file starts with the header comment, followed by one
\* import per dependency, followed by the import of the serialization
\* runtime and then the import of the RPC framework; nothing after them is
\* an import or a comment, whatever the file declares and the style offers.
C7_Layout ==
    \A n \in 1..Len(file) :
        LET content == file[n].content
            d == Len(request.proto_file[n].dependency)
        IN  /\ Len(content) >= d + 3
            /\ content[1].kind = "comment"
            /\ \A k \in 2..(d + 1) :
                  content[k].kind = "import" /\ content[k].alias.text = "dependency"
            /\ content[d + 2] = createImport([text |-> "pb", n |-> 1], GoogleProtobuf)
            /\ content[d + 3] = createImport([text |-> "grpc", n |-> 1], GrpcPackage)
            /\ \A k \in (d + 4)..Len(content) :
                  content[k].kind \notin {"comment", "import"}
            /\ OfKind(Flat(content), {"comment", "import"}) = SubSeq(content, 1, d + 3)

\* an empty file compiled by a style that offers nothing consists of the
\* header and the two runtime imports
C7_Witness ==
    /\ rpc = {}
    /\ \E n \in 1..Len(file) :
          /\ request.proto_file[n] = FileG
          /\ Len(file[n].content) = 3

\* the number of declarations the file and the style call for
DeclarationCount(fileDescriptor, m) ==
    Len(fileDescriptor.enum_type) + Len(fileDescriptor.message_type)
      + (IF "createGrpcInterfaceType" \in m.offers THEN 2 ELSE 0)
      + Len(fileDescriptor.service)
          * Cardinality(m.offers \cap {"createUnimplementedServer", "createServiceClient"})

\* C8: in every generated file, if the style offers wrapInNamespace and it
\* answers true for the file, what follows the imports is one namespace
\* block named by the package that holds all declarations of the file;
\* otherwise all declarations follow the imports at top level and the file
\* has no namespace block.
C8_NamespaceWrapping ==
    \A n \in 1..Len(file) :
        LET f == request.proto_file[n]
            content == file[n].content
            rest == SubSeq(content, Len(f.dependency) + 4, Len(content))
        IN  IF "wrapInNamespace" \in styleModule.offers /\ WrapAnswer(styleModule, f)
            THEN /\ Len(rest) = 1
                 /\ rest[1].kind = "namespace"
                 /\ rest[1].name = f.package
                 /\ Len(rest[1].body) = DeclarationCount(f, styleModule)
                 /\ OfKind(rest[1].body, {"namespace"}) = <<>>
            ELSE /\ Len(rest) = DeclarationCount(f, styleModule)
                 /\ OfKind(content, {"namespace"}) = <<>>

\* in one run a file with a package was wrapped and a file without a
\* package, with declarations of every kind, was left at top level
C8_Witness ==
    /\ styleModule.wrap = "packaged"
    /\ styleModule.offers = Operations
    /\ \E n \in 1..Len(file) :
          /\ request.proto_file[n] = FileA
          /\ OfKind(file[n].content, {"namespace"}) # <<>>
    /\ \E n \in 1..Len(file) :
          /\ request.proto_file[n] = FileC
          /\ OfKind(file[n].content, {"namespace"}) = <<>>

\* every type a message of the request refers to is defined in the request
AllResolvable ==
    \A a \in 1..NumFiles : \A m \in Range(request.proto_file[a].message_type) :
        \/ m.type_name = NoType
        \/ \E b \in 1..NumFiles : m.type_name \in TypesOf(request.proto_file[b])

\* C9: whatever subset of the four operations the loaded style offers, a
\* request whose type references resolve never fails; and every generated
\* file holds, for each service, a server skeleton exactly when
\* createUnimplementedServer is offered and a client exactly when
\* createServiceClient is offered, and interface declarations only when
\* createGrpcInterfaceType is offered.
C9_AbsentOperationsSkipped ==
    /\ (styleModule # NoModule /\ AllResolvable) => pc # "failed"
    /\ \A n \in 1..Len(file) :
          LET declarations == Flat(file[n].content)
          IN  /\ \A s \in Range(request.proto_file[n].service) :
                    /\ Cardinality({ k \in 1..Len(declarations) :
                                       /\ declarations[k].kind = "server"
                                       /\ declarations[k].service = s })
                         = (IF "createUnimplementedServer" \in styleModule.offers THEN 1 ELSE 0)
                    /\ Cardinality({ k \in 1..Len(declarations) :
                                       /\ declarations[k].kind = "client"
                                       /\ declarations[k].service = s })
                         = (IF "createServiceClient" \in styleModule.offers THEN 1 ELSE 0)
              /\ "createGrpcInterfaceType" \notin styleModule.offers
                    => OfKind(declarations, {"interface"}) = <<>>
              /\ styleModule.offers = {}
                    => OfKind(declarations, {"interface", "server", "client"}) = <<>>

\* a run with a style that offers nothing completed on files with services
C9_Witness ==
    /\ pc = "done"
    /\ styleModule.offers = {}
    /\ \E n \in 1..Len(file) : Len(request.proto_file[n].service) = 2
    /\ \E n \in 1..Len(file) : Len(request.proto_file[n].service) = 1

\* C10: when the style offers createGrpcInterfaceType, it was called once
\* for every generated file and each interface it returns is declared once
\* in that file, however many services the file has.
C10_InterfacesOncePerFile ==
    "createGrpcInterfaceType" \in styleModule.offers =>
        \A n \in 1..Len(file) :
            LET interfaces == OfKind(Flat(file[n].content), {"interface"})
            IN  /\ Len(CallsOf(calls, n, {"createGrpcInterfaceType"})) = 1
                /\ Len(interfaces) = 2
                /\ Distinct([ k \in 1..Len(interfaces) |-> interfaces[k].name ])

\* files with no, one and two services were emitted in one run of a style
\* that offers every operation
C10_Witness ==
    /\ pc = "done"
    /\ styleModule.offers = Operations
    /\ \A c \in 0..2 : \E n \in 1..Len(file) : Len(request.proto_file[n].service) = c

\* C11: the response is written at most once, only when the run is over
\* and every proto file has been compiled, and it is then the complete
\* response; a run that failed, at whatever file, has written nothing.
C11_AllOrNothing ==
    /\ Len(stdout) <= 1
    /\ stdout # <<>> =>
          /\ pc = "done"
          /\ stdout[1] = file
          /\ Len(stdout[1]) = NumFiles
          /\ \A n \in 1..NumFiles : Len(CallsOf(calls, n, {"printFile"})) = 1
    /\ pc = "failed" => stdout = <<>>

\* the third file of a batch failed after two files had been generated
C11_Witness ==
    /\ pc = "failed"
    /\ styleModule # NoModule
    /\ i = 3
    /\ Len(file) = 2
    /\ stdout = <<>>

\* C12: when the style names no loadable module, the run never gets past
\* the import: no file is preprocessed or translated, the symbol table and
\* the dependency map stay untouched, no file is generated and nothing is
\* written.
C12_UnknownStyleFailsFirst ==
    styleModule = NoModule =>
        /\ pc \in {"start", "import", "failed"}
        /\ calls = <<>>
        /\ DOMAIN symbolMap = {}
        /\ dependencyMap = EmptyMap
        /\ bindingFile = EmptyOwners
        /\ statements = <<>>
        /\ file = <<>>
        /\ stdout = <<>>

\* the run on a batch of three files failed at the import
C12_Witness ==
    /\ styleModule = NoModule
    /\ pc = "failed"
    /\ NumFiles = 3

\* C14: once the generated file of a proto file has been emitted, at the
\* end of every turn of the per-file loop and so at the end of the run, the
\* dependency map holds no binding.
C14_MapEmptyAfterEmit ==
    ( /\ Len(file) > 0
      /\ \/ pc \in {"write", "done"}
         \/ pc = "enums" /\ Len(file) = i - 1 )
    => DOMAIN dependencyMap = {}

\* the per-file callback of the map has been entered
TranslationBegun ==
    pc \in {"enums", "messages", "interfaces", "services", "reset", "comment",
            "dependencies", "defaults", "wrap", "print"} \/ Len(file) > 0

\* the types of the first k proto files, each with a file that defines it
SymbolsOfFirst(k) ==
    [ t \in UNION { TypesOf(request.proto_file[n]) : n \in 1..k } |->
        request.proto_file[Max({ n \in 1..k : t \in TypesOf(request.proto_file[n]) })].name ]

\* C15: preprocess is called once per proto file, in input order, and
\* these calls come before every other call; once the translation of the
\* first file has begun all of them are done, and the symbol table is and
\* stays the table of the whole batch.
C15_PreprocessOnceBeforeTranslation ==
    LET passes == { k \in 1..Len(calls) : calls[k].op = "preprocess" }
    IN  /\ passes = 1..Cardinality(passes)
        /\ \A k \in passes : calls[k].file = k
        /\ Cardinality(passes) <= NumFiles
        /\ symbolMap = SymbolsOfFirst(Cardinality(passes))
        /\ TranslationBegun => Cardinality(passes) = NumFiles

\* the run on three files is over, with three preprocess calls up front
C15_Witness ==
    /\ pc = "done"
    /\ NumFiles = 3
    /\ Len(calls) > 3
    /\ \A k \in 1..3 : calls[k] = [ op |-> "preprocess", file |-> k, arg |-> <<>> ]
    /\ DOMAIN symbolMap # {}

\* C16: other callbacks run only while main() waits for the style module;
\* none runs between the loading of the module and the writing of the
\* response, so none finds or changes a binding of the dependency map, and
\* the calls made for the proto files come file after file in input order.
C16_SingleSuspensionPoint ==
    /\ \A t \in interleavings : t.at = "import" /\ t.map = EmptyMap
    /\ Cardinality(interleavings) = otherTurns
    /\ \A a, b \in 1..Len(calls) :
          (a < b /\ calls[a].op # "preprocess" /\ calls[b].op # "preprocess")
             => calls[a].file <= calls[b].file

\* another callback ran during the import and the run then compiled three
\* files to the end
C16_Witness ==
    /\ pc = "done"
    /\ otherTurns = 1
    /\ interleavings # {}
    /\ Len(file) = 3

EndsWith(name, extension) ==
    /\ Len(name) >= Len(extension)
    /\ SubSeq(name, Len(name) - Len(extension) + 1, Len(name)) = extension

\* C17: the name of every generated file is the name of its proto file with
\* only the extension of the last path segment replaced by .ts: the
\* directory part is the same, the part of the last segment before its
\* extension is the same, and the name ends in .ts.
C17_NameKeepsPathAndEndsInTs ==
    \A n \in 1..Len(file) :
        LET source == request.proto_file[n].name
            name == file[n].name
            q == LastIndexOf(source, "/")
            stem == Len(name) - Len(TsExtension)
        IN  /\ LastIndexOf(name, "/") = q
            /\ SubSeq(name, 1, q) = SubSeq(source, 1, q)
            /\ EndsWith(name, TsExtension)
            /\ stem >= q
            /\ SubSeq(name, 1, stem) = SubSeq(source, 1, stem)
            /\ \A k \in (stem + 2)..Len(source) : source[k] \notin {".", "/"}

\* kind and name of a declaration
Key(node) ==
    CASE node.kind \in {"enum", "message"} -> << node.kind, node.name >>
      [] node.kind \in {"server", "client"} -> << node.kind, node.service >>
      [] OTHER -> << node.kind, "" >>

RECURSIVE ServiceKeys(_, _)
ServiceKeys(services, offers) ==
    IF services = <<>> THEN <<>>
    ELSE (IF "createUnimplementedServer" \in offers
          THEN << <<"server", Head(services)>> >> ELSE <<>>)
      \o (IF "createServiceClient" \in offers
          THEN << <<"client", Head(services)>> >> ELSE <<>>)
      \o ServiceKeys(Tail(services), offers)

\* C18: after the imports of every generated file come the enums in
\* descriptor order, then the messages in descriptor order, then the shared
\* interfaces, then for each service in descriptor order its server
\* skeleton directly followed by its client.
C18_DeclarationOrder ==
    \A n \in 1..Len(file) :
        LET f == request.proto_file[n]
            flat == Flat(file[n].content)
            declarations == SubSeq(flat, Len(f.dependency) + 4, Len(flat))
        IN  [ k \in 1..Len(declarations) |-> Key(declarations[k]) ]
              = [ k \in 1..Len(f.enum_type) |-> << "enum", f.enum_type[k] >> ]
                \o [ k \in 1..Len(f.message_type) |-> << "message", f.message_type[k].name >> ]
                \o (IF "createGrpcInterfaceType" \in styleModule.offers
                    THEN << <<"interface", "">>, <<"interface", "">> >> ELSE <<>>)
                \o ServiceKeys(f.service, styleModule.offers)

\* a file with an enum, two messages and two services was generated by a
\* style that offers every operation
C18_Witness ==
    /\ styleModule.offers = Operations
    /\ \E n \in 1..Len(file) :
          /\ request.proto_file[n] = FileC
          /\ Len(Flat(file[n].content)) = 5 + 1 + 2 + 2 + 4

DeclarationKinds == { "enum", "message", "interface", "server", "client" }

\* C19: in every generated file, wrapped or not, the header comment, the
\* dependency imports and the two runtime imports stand at top level, in
\* front of everything else; a namespace block holds type and RPC
\* declarations only, and when there is one nothing but the header and the
\* imports stands outside it.
C19_ImportsStayAtTopLevel ==
    \A n \in 1..Len(file) :
        LET content == file[n].content
            d == Len(request.proto_file[n].dependency)
            blocks == { k \in 1..Len(content) : content[k].kind = "namespace" }
        IN  /\ Len(content) >= d + 3
            /\ content[1].kind = "comment"
            /\ \A k \in 2..(d + 3) : content[k].kind = "import"
            /\ \A k \in blocks :
                  /\ k > d + 3
                  /\ \A b \in 1..Len(content[k].body) :
                        content[k].body[b].kind \in DeclarationKinds
            /\ blocks # {} =>
                  \A k \in 1..Len(content) :
                     k \notin blocks => (k <= d + 3 /\ content[k].kind \notin DeclarationKinds)

\* a file with a dependency, a message and a service was wrapped
C19_Witness ==
    \E n \in 1..Len(file) :
        /\ request.proto_file[n] = FileB
        /\ Len(file[n].content) = 5
        /\ file[n].content[5].kind = "namespace"
        /\ Len(file[n].content[5].body) = 5

====
